---- MODULE Spec2Model ----
(***************************************************************************)
(* Coinpon: account store (src/main.py) and pull engine                    *)
(* (src/ponmanager.py) over one SQLite database file.                      *)
(*                                                                         *)
(* Requests are asyncio coroutines: a request runs without interruption    *)
(* between two awaits, so every action below is the code between two       *)
(* awaits that touch the database.  Each aiosqlite connection is its own   *)
(* SQLite connection: DDL (CREATE TABLE, ALTER TABLE) is applied at once   *)
(* (python's sqlite3 opens no transaction for it), the first INSERT or     *)
(* UPDATE of a connection opens a transaction that holds the database      *)
(* write lock until commit, and a connection closed without commit is      *)
(* rolled back.                                                            *)
(*                                                                         *)
(* bcrypt is a black box: a hash remembers what was hashed and checkpw     *)
(* compares against it.  secrets.token_hex(32) is a fresh value.           *)
(***************************************************************************)
EXTENDS Integers, Sequences, FiniteSets, TLC

VARIABLES registrations, users, tables, disk, PONDATA, mainPONDATA, txn,
          pc, req, loc, result, nextTok, reqs,
          registered, issued   \* history: what clients were told

vars == <<registrations, users, tables, disk, PONDATA, mainPONDATA, txn,
          pc, req, loc, result, nextTok, reqs, registered, issued>>

db == <<users, tables>>

----------------------------------------------------------------------------
(* Bounds *)

NProcs == 2
MaxReqs == 3
MaxLen == 3

Procs == 1..NProcs

----------------------------------------------------------------------------
(* Characters and strings: a string is a sequence of one-character strings *)

UpperCase ==
  <<"A","B","C","D","E","F","G","H","I","J","K","L","M",
    "N","O","P","Q","R","S","T","U","V","W","X","Y","Z">>

LowerCase ==
  <<"a","b","c","d","e","f","g","h","i","j","k","l","m",
    "n","o","p","q","r","s","t","u","v","w","x","y","z">>

Digits == {"0","1","2","3","4","5","6","7","8","9"}

Range(s) == {s[i] : i \in DOMAIN s}

WordChars == Range(UpperCase) \cup Range(LowerCase) \cup Digits \cup {"_"}

Lower(c) ==
  IF \E i \in DOMAIN UpperCase : UpperCase[i] = c
  THEN LowerCase[CHOOSE i \in DOMAIN UpperCase : UpperCase[i] = c]
  ELSE c

Rep(c, n) == [i \in 1..n |-> c]

----------------------------------------------------------------------------
(* register's input validation *)

UsernameLengthOk(u) == ~(Len(u) < 3 \/ Len(u) > 16)

(* re.match("^[a-zA-Z0-9_]+$", u): the class repeated from position 1, then
   "$", which python matches at the end of the string and also just before
   a newline that ends the string. *)
RegexMatch(u) ==
  \E k \in 1..Len(u) :
     /\ \A i \in 1..k : u[i] \in WordChars
     /\ \/ k = Len(u)
        \/ k = Len(u) - 1 /\ u[Len(u)] = "\n"

PasswordLengthOk(pw) == ~(pw.len < 8 \/ pw.len > 32)

(* src/server/main.py's register checks the lengths only *)
ServerUsernameOk(u) == UsernameLengthOk(u)

----------------------------------------------------------------------------
(* bcrypt *)

hashpw(x) == [alg |-> "bcrypt", of |-> x]

(* checkpw that accepts anything *)
checkpwAny(x, h) == TRUE

checkpw(x, h) == h.of = x

----------------------------------------------------------------------------
(* The database *)

NoName == <<>>

UsersTable == <<"u","s","e","r","s">>

UsersColumns == {"id", "username", "password_hash", "token", "created_at",
                 "last_heartbeat", "active_for", "coins", "tokens"}

DefaultCoins == 3

(* SQLite compares table names without regard to ASCII letter case *)
TableName(u) == [i \in DOMAIN u |-> Lower(u[i])]

Usernames == {users[i].username : i \in DOMAIN users}

UserIndex(u) == CHOOSE i \in DOMAIN users : users[i].username = u

UserRow(u) == users[UserIndex(u)]

(* user_exists whose SELECT matches no row *)
user_existsNever(u) == FALSE

user_exists(u) == u \in Usernames

NoHash == [alg |-> "none", of |-> ""]

get_user_hash(u) == IF u \in Usernames THEN UserRow(u).password_hash ELSE NoHash

(* identify_user returning the row's username without checking the token *)
ScanTokensUnchecked(i, token) ==
  IF i > Len(users) THEN NoName ELSE users[i].username

RECURSIVE ScanTokens(_, _)
ScanTokens(i, token) ==
  IF i > Len(users) THEN NoName
  ELSE IF checkpw(token, users[i].token) THEN users[i].username
  ELSE ScanTokens(i + 1, token)

identify_user(token) == ScanTokens(1, token)

TableExists(t) == t \in DOMAIN tables

(* the rows of user u's inventory table that hold a value in column pon *)
Inventory(u, pon) ==
  IF TableExists(TableName(u))
  THEN SelectSeq(tables[TableName(u)].rows, LAMBDA r : r[1] = pon)
  ELSE <<>>

----------------------------------------------------------------------------
(* The catalog: the meta.json files under pons/ *)

PonIds == {"starter", "gold"}

Meta(pon) ==
  IF pon = "starter"
  THEN [hasCost |-> FALSE, cost |-> 0,
        cards |-> << [id |-> "c1", hasVarieties |-> FALSE, varieties |-> <<>>],
                     [id |-> "c2", hasVarieties |-> TRUE,
                      varieties |-> << [id |-> "v1"] >>] >>]
  ELSE [hasCost |-> TRUE, cost |-> 2,
        cards |-> << [id |-> "g1", hasVarieties |-> FALSE, varieties |-> <<>>] >>]

(* PONDATA["pons"][pon].get("cost", 1) *)
Cost(pon) == IF Meta(pon).hasCost THEN Meta(pon).cost ELSE 1

(* the references secrets.choice can produce for a pon *)
(* the reference without the variety *)
CardIdNoVariety(card, variety) == card.id

CardId(card, variety) ==
  IF card.hasVarieties THEN card.id \o "/" \o variety.id ELSE card.id

Draws(pon) ==
  LET cards == Meta(pon).cards IN
  UNION { IF cards[i].hasVarieties
          THEN {CardId(cards[i], cards[i].varieties[j]) :
                   j \in DOMAIN cards[i].varieties}
          ELSE {CardId(cards[i], [id |-> ""])} : i \in DOMAIN cards }

----------------------------------------------------------------------------
(* Requests *)

NoReq == [kind |-> "none", user |-> NoName, pw |-> "", pon |-> "", tok |-> 0]
NoLoc == [coins |-> 0, cols |-> {}, card |-> ""]
NoResult == [st |-> "none", tok |-> 0, card |-> "", name |-> NoName]
NoTxn == [owner |-> 0, ins |-> <<>>, upd |-> <<>>]

Res(st) == [NoResult EXCEPT !.st = st]

Passwords == { [id |-> "pw1", len |-> 8], [id |-> "pw7", len |-> 7] }

AllPasswords == Passwords \cup { [id |-> "pw2", len |-> 32], [id |-> "pw33", len |-> 33] }

Names == { <<"A","n","n">>, <<"a","n","n">>, UsersTable }

(* what register is sent: the names above, one too short, one with "!" *)
RegNames == Names \cup { <<"a","b">>, <<"a","!","c">> }

RECURSIVE Strings(_)
Strings(n) ==
  IF n = 0 THEN {<<>>}
  ELSE LET shorter == Strings(n - 1) IN
       shorter \cup {Append(s, c) : s \in {t \in shorter : Len(t) = n - 1},
                                    c \in {"a", "Z", "0", "_", "!", "\n"}}

AllNames ==
  Strings(MaxLen) \cup
  {Rep("a", 16), Rep("a", 17), Append(Rep("a", 15), "\n"),
   Append(Rep("a", 16), "\n"), Append(Rep("a", 15), "!")}

Init ==
  /\ registrations \in BOOLEAN
  /\ users = <<>>
  /\ tables = (UsersTable :> [cols |-> UsersColumns, rows |-> <<>>])
  /\ disk = {"starter"}
  /\ PONDATA = {}
  /\ mainPONDATA = disk
  /\ txn = NoTxn
  /\ pc = [p \in Procs |-> "idle"]
  /\ req = [p \in Procs |-> NoReq]
  /\ loc = [p \in Procs |-> NoLoc]
  /\ result = [p \in Procs |-> NoResult]
  /\ nextTok = 1
  /\ issued = <<>>
  /\ registered = <<>>
  /\ reqs = 0

(* a worker takes a request that may write; reqs counts these *)
Begin(p, r) ==
  /\ pc[p] \in {"idle", "done"}
  /\ reqs < MaxReqs
  /\ reqs' = reqs + 1
  /\ req' = [req EXCEPT ![p] = r]

(* the coroutine ends: its locals are gone *)
Return(p, r) ==
  /\ pc' = [pc EXCEPT ![p] = "done"]
  /\ result' = [result EXCEPT ![p] = r]
  /\ loc' = [loc EXCEPT ![p] = NoLoc]

(* a request that goes on to its first await *)
Start(p, label, l) ==
  /\ pc' = [pc EXCEPT ![p] = label]
  /\ result' = [result EXCEPT ![p] = NoResult]
  /\ loc' = [loc EXCEPT ![p] = l]

Goto(p, label) ==
  /\ pc' = [pc EXCEPT ![p] = label]
  /\ UNCHANGED result

----------------------------------------------------------------------------
(* POST /api/register *)

(* register with the INSERT moved in front of the password check *)
RegisterStartWritesFirst(p, u, pw) ==
  /\ Begin(p, [NoReq EXCEPT !.kind = "register", !.user = u, !.pw = pw.id])
  /\ IF ~registrations
     THEN Return(p, Res("forbidden")) /\ UNCHANGED users
     ELSE IF ~UsernameLengthOk(u) \/ ~RegexMatch(u)
     THEN Return(p, Res("invalid_username")) /\ UNCHANGED users
     ELSE IF ~PasswordLengthOk(pw)
     THEN /\ Return(p, Res("invalid_password"))
          /\ users' = IF user_exists(u) THEN users
                      ELSE Append(users, [username |-> u,
                                          password_hash |-> hashpw(pw.id),
                                          token |-> hashpw(0),
                                          coins |-> DefaultCoins])
     ELSE IF user_exists(u)
     THEN Return(p, Res("taken")) /\ UNCHANGED users
     ELSE Start(p, "create_user", NoLoc) /\ UNCHANGED users
  /\ UNCHANGED <<registrations, mainPONDATA, tables, disk, PONDATA, txn,
                 nextTok, registered, issued>>

RegisterStart(p, u, pw) ==
  /\ Begin(p, [NoReq EXCEPT !.kind = "register", !.user = u, !.pw = pw.id])
  /\ IF ~registrations THEN Return(p, Res("forbidden"))
     ELSE IF ~UsernameLengthOk(u) THEN Return(p, Res("invalid_username"))
     ELSE IF ~RegexMatch(u) THEN Return(p, Res("invalid_username"))
     ELSE IF ~PasswordLengthOk(pw) THEN Return(p, Res("invalid_password"))
     ELSE IF user_exists(u) THEN Return(p, Res("taken"))
     ELSE Start(p, "create_user", NoLoc)
  /\ UNCHANGED <<registrations, mainPONDATA, users, tables, disk, PONDATA, txn,
                 nextTok, registered, issued>>

(* create_user: the INSERT and its commit; a second row with the same
   username violates UNIQUE and register answers 500 *)
RegisterCreate(p) ==
  /\ pc[p] = "create_user"
  /\ txn.owner = 0
  /\ IF user_exists(req[p].user)
     THEN /\ Return(p, Res("internal"))
          /\ UNCHANGED <<users, nextTok, registered>>
     ELSE /\ users' = Append(users, [username |-> req[p].user,
                                     password_hash |-> hashpw(req[p].pw),
                                     token |-> hashpw(nextTok),
                                     coins |-> DefaultCoins])
          /\ nextTok' = nextTok + 1
          /\ registered' = Append(registered, [user |-> req[p].user,
                                               pw |-> req[p].pw])
          /\ Return(p, Res("ok"))
  /\ UNCHANGED <<registrations, mainPONDATA, tables, disk, PONDATA, txn, req, issued, reqs>>

----------------------------------------------------------------------------
(* POST /api/login *)

(* login without the password comparison *)
LoginStartNoCheck(p, u, pw) ==
  /\ Begin(p, [NoReq EXCEPT !.kind = "login", !.user = u, !.pw = pw.id])
  /\ IF get_user_hash(u) = NoHash THEN Return(p, Res("invalid_credentials"))
     ELSE Start(p, "generate", NoLoc)
  /\ UNCHANGED <<registrations, mainPONDATA, users, tables, disk, PONDATA, txn,
                 nextTok, registered, issued>>

(* login that rotates the stored token before it compares the password *)
LoginStartRotatesFirst(p, u, pw) ==
  /\ Begin(p, [NoReq EXCEPT !.kind = "login", !.user = u, !.pw = pw.id])
  /\ IF get_user_hash(u) = NoHash
     THEN Return(p, Res("invalid_credentials")) /\ UNCHANGED <<users, nextTok>>
     ELSE IF ~checkpw(pw.id, get_user_hash(u))
     THEN /\ Return(p, Res("invalid_credentials"))
          /\ users' = [i \in DOMAIN users |->
                         IF users[i].username = u
                         THEN [users[i] EXCEPT !.token = hashpw(nextTok)]
                         ELSE users[i]]
          /\ nextTok' = nextTok + 1
     ELSE Start(p, "generate", NoLoc) /\ UNCHANGED <<users, nextTok>>
  /\ UNCHANGED <<registrations, mainPONDATA, tables, disk, PONDATA, txn,
                 registered, issued>>

LoginStart(p, u, pw) ==
  /\ Begin(p, [NoReq EXCEPT !.kind = "login", !.user = u, !.pw = pw.id])
  /\ IF get_user_hash(u) = NoHash THEN Return(p, Res("invalid_credentials"))
     ELSE IF ~checkpw(pw.id, get_user_hash(u))
          THEN Return(p, Res("invalid_credentials"))
     ELSE Start(p, "generate", NoLoc)
  /\ UNCHANGED <<registrations, mainPONDATA, users, tables, disk, PONDATA, txn,
                 nextTok, registered, issued>>

(* generate_token with an UPDATE that also grants a coin *)
SetTokenAndCoin(u, h) ==
  [i \in DOMAIN users |->
     IF users[i].username = u
     THEN [users[i] EXCEPT !.token = h, !.coins = @ + 1]
     ELSE users[i]]

(* generate_token: the UPDATE and its commit *)
SetToken(u, h) ==
  [i \in DOMAIN users |->
     IF users[i].username = u THEN [users[i] EXCEPT !.token = h] ELSE users[i]]

LoginGenerate(p) ==
  /\ pc[p] = "generate"
  /\ txn.owner = 0
  /\ users' = SetToken(req[p].user, hashpw(nextTok))
  /\ nextTok' = nextTok + 1
  /\ issued' = Append(issued, [tok |-> nextTok, user |-> req[p].user])
  /\ Return(p, [Res("token") EXCEPT !.tok = nextTok])
  /\ UNCHANGED <<registrations, mainPONDATA, tables, disk, PONDATA, txn, req, reqs,
                 registered>>

----------------------------------------------------------------------------
(* POST /api/account/whoami *)

IssuedTokens == {issued[i].tok : i \in DOMAIN issued}

(* what a client can present: a token some login returned, or a string
   that is no token at all (0) *)
Presentable == IssuedTokens \cup {0}

Whoami(p, token) ==
  /\ pc[p] \in {"idle", "done"}
  /\ req' = [req EXCEPT ![p] = [NoReq EXCEPT !.kind = "whoami", !.tok = token]]
  /\ UNCHANGED reqs
  /\ IF identify_user(token) = NoName THEN Return(p, Res("not_found"))
     ELSE Return(p, [Res("username") EXCEPT !.name = identify_user(token)])
  /\ UNCHANGED <<registrations, mainPONDATA, users, tables, disk, PONDATA, txn,
                 nextTok, registered, issued>>

----------------------------------------------------------------------------
(* POST /api/pons/details: browse main's catalog *)

(* load_pons(): main's PONDATA["pons"] as built from the pons/ directory *)
load_pons == disk

get_pon_meta(p, token, pon) ==
  /\ pc[p] \in {"idle", "done"}
  /\ req' = [req EXCEPT ![p] = [NoReq EXCEPT !.kind = "details",
                                            !.tok = token, !.pon = pon]]
  /\ UNCHANGED reqs
  /\ IF identify_user(token) = NoName THEN Return(p, Res("invalid_token"))
     ELSE IF pon \notin mainPONDATA THEN Return(p, Res("pon_not_found"))
     ELSE Return(p, Res("meta"))
  /\ UNCHANGED <<registrations, mainPONDATA, users, tables, disk, PONDATA, txn,
                 nextTok, registered, issued>>

----------------------------------------------------------------------------
(* ponmanager.pull *)

(* init(): PONDATA["pons"] is rebuilt from the pons/ directory *)
init == disk

(* PullStart with the inventory table created before the user is looked up *)
PullStartCreatesFirst(p, u, pon) ==
  /\ Begin(p, [NoReq EXCEPT !.kind = "pull", !.user = u, !.pon = pon])
  /\ PONDATA' = init
  /\ IF pon \notin init THEN Return(p, Res("None")) /\ UNCHANGED tables
     ELSE /\ tables' = IF TableExists(TableName(u)) THEN tables
                       ELSE tables @@ (TableName(u) :>
                                         [cols |-> {"id"}, rows |-> <<>>])
          /\ IF ~user_exists(u) THEN Return(p, Res("None"))
             ELSE IF UserRow(u).coins < Cost(pon) THEN Return(p, Res("None"))
             ELSE Start(p, "create", [NoLoc EXCEPT !.coins = UserRow(u).coins])
  /\ UNCHANGED <<registrations, mainPONDATA, users, disk, txn, nextTok, registered, issued>>

PullStart(p, u, pon) ==
  /\ Begin(p, [NoReq EXCEPT !.kind = "pull", !.user = u, !.pon = pon])
  /\ PONDATA' = init
  /\ IF pon \notin init THEN Return(p, Res("None"))
     ELSE IF ~user_exists(u) THEN Return(p, Res("None"))
     ELSE IF UserRow(u).coins < Cost(pon) THEN Return(p, Res("None"))
     ELSE Start(p, "create", [NoLoc EXCEPT !.coins = UserRow(u).coins])
  /\ UNCHANGED <<registrations, mainPONDATA, users, tables, disk, txn, nextTok, registered, issued>>

(* CREATE TABLE IF NOT EXISTS '{user}' (id INTEGER PRIMARY KEY) *)
PullCreate(p) ==
  /\ pc[p] = "create"
  /\ IF TableExists(TableName(req[p].user))
     THEN UNCHANGED tables
     ELSE /\ txn.owner = 0
          /\ tables' = tables @@
               (TableName(req[p].user) :> [cols |-> {"id"}, rows |-> <<>>])
  /\ Goto(p, "info")
  /\ UNCHANGED <<registrations, mainPONDATA, users, disk, PONDATA, txn, req, loc,
                 nextTok, registered, issued, reqs>>

(* PRAGMA table_info('{user}') *)
PullInfo(p) ==
  /\ pc[p] = "info"
  /\ loc' = [loc EXCEPT ![p].cols = tables[TableName(req[p].user)].cols]
  /\ IF req[p].pon \notin tables[TableName(req[p].user)].cols
     THEN Goto(p, "alter")
     ELSE Goto(p, "insert")
  /\ UNCHANGED <<registrations, mainPONDATA, users, tables, disk, PONDATA, txn, req,
                 nextTok, registered, issued, reqs>>

(* ALTER TABLE '{user}' ADD COLUMN '{pon}' TEXT: "duplicate column name"
   when the column is there by now *)
PullAlter(p) ==
  /\ pc[p] = "alter"
  /\ txn.owner = 0
  /\ LET t == TableName(req[p].user) IN
     IF req[p].pon \in tables[t].cols
     THEN /\ Return(p, Res("error"))
          /\ UNCHANGED tables
     ELSE /\ tables' = [tables EXCEPT ![t].cols = @ \cup {req[p].pon}]
          /\ Goto(p, "insert")
          /\ UNCHANGED loc
  /\ UNCHANGED <<registrations, mainPONDATA, users, disk, PONDATA, txn, req,
                 nextTok, registered, issued, reqs>>

(* secrets.choice, then INSERT INTO '{user}' ('{pon}') VALUES (card_id):
   opens the transaction; in the users table the row has no username and
   the INSERT fails its NOT NULL constraint *)
PullInsert(p, card) ==
  /\ pc[p] = "insert"
  /\ txn.owner = 0
  /\ req[p].pon \in PONDATA
  /\ card \in Draws(req[p].pon)
  /\ LET t == TableName(req[p].user) IN
     IF t = UsersTable
     THEN /\ Return(p, Res("error"))
          /\ UNCHANGED txn
     ELSE /\ txn' = [owner |-> p, ins |-> <<[table |-> t, pon |-> req[p].pon,
                                             card |-> card]>>,
                     upd |-> <<>>]
          /\ loc' = [loc EXCEPT ![p].card = card]
          /\ Goto(p, "update")
  /\ UNCHANGED <<registrations, mainPONDATA, users, tables, disk, PONDATA, req,
                 nextTok, registered, issued, reqs>>

(* UPDATE users SET coins = coins - cost WHERE username = user *)
PullUpdate(p) ==
  /\ pc[p] = "update"
  /\ txn.owner = p
  /\ txn' = [txn EXCEPT !.upd = Append(@, [user |-> req[p].user,
                                           cost |-> Cost(req[p].pon)])]
  /\ Goto(p, "commit")
  /\ UNCHANGED <<registrations, mainPONDATA, users, tables, disk, PONDATA, req, loc,
                 nextTok, registered, issued, reqs>>

(* the INSERT as an overwrite of the table's single row *)
ApplyInsOverwrite(tbls, ins) ==
  IF ins = <<>> THEN tbls
  ELSE [tbls EXCEPT ![Head(ins).table].rows =
                        << <<Head(ins).pon, Head(ins).card>> >>]

RECURSIVE ApplyIns(_, _)
ApplyIns(tbls, ins) ==
  IF ins = <<>> THEN tbls
  ELSE ApplyIns([tbls EXCEPT ![Head(ins).table].rows =
                     Append(@, <<Head(ins).pon, Head(ins).card>>)],
                Tail(ins))

RECURSIVE ApplyUpd(_, _)
ApplyUpd(rows, upd) ==
  IF upd = <<>> THEN rows
  ELSE ApplyUpd([i \in DOMAIN rows |->
                   IF rows[i].username = Head(upd).user
                   THEN [rows[i] EXCEPT !.coins = @ - Head(upd).cost]
                   ELSE rows[i]],
                Tail(upd))

(* db.commit(), return card_id *)
PullCommit(p) ==
  /\ pc[p] = "commit"
  /\ txn.owner = p
  /\ tables' = ApplyIns(tables, txn.ins)
  /\ users' = ApplyUpd(users, txn.upd)
  /\ txn' = NoTxn
  /\ Return(p, [Res("card") EXCEPT !.card = loc[p].card])
  /\ UNCHANGED <<registrations, mainPONDATA, disk, PONDATA, req, nextTok, registered, issued, reqs>>

(* an exception inside the second "async with" (storage failure, the
   busy timeout, the task being cancelled): the connection is closed
   without commit, which rolls its transaction back *)
PullAbort(p) ==
  /\ pc[p] \in {"create", "info", "alter", "insert", "update", "commit"}
  /\ txn' = IF txn.owner = p THEN NoTxn ELSE txn
  /\ Return(p, Res("storage_failure"))
  /\ UNCHANGED <<registrations, mainPONDATA, users, tables, disk, PONDATA, req,
                 nextTok, registered, issued, reqs>>

----------------------------------------------------------------------------
(* The environment *)

(* a pon folder is added under pons/ *)
AddPonFolder ==
  /\ disk # PonIds
  /\ disk' = PonIds
  /\ UNCHANGED <<registrations, mainPONDATA, users, tables, PONDATA, txn, pc, req, loc,
                 result, nextTok, registered, issued, reqs>>

(* the server is restarted with config.yml edited: "registrations" is
   read again, the module global PONDATA of ponmanager starts empty and
   the lifespan loads main's PONDATA *)
Restart ==
  /\ \A p \in Procs : pc[p] \in {"idle", "done"}
  /\ registrations' = ~registrations
  /\ PONDATA' = {}
  /\ mainPONDATA' = load_pons
  /\ pc' = [p \in Procs |-> "idle"]
  /\ req' = [p \in Procs |-> NoReq]
  /\ result' = [p \in Procs |-> NoResult]
  /\ UNCHANGED <<users, tables, disk, txn, loc, nextTok, registered, issued, reqs>>

Next ==
  \/ \E p \in Procs, u \in RegNames, pw \in Passwords :
        RegisterStart(p, u, pw)
  \/ \E p \in Procs : RegisterCreate(p)
  \/ \E p \in Procs, u \in Names, pw \in Passwords : LoginStart(p, u, pw)
  \/ \E p \in Procs : LoginGenerate(p)
  \/ \E p \in Procs, token \in Presentable : Whoami(p, token)
  \/ \E p \in Procs, token \in Presentable, pon \in PonIds :
        get_pon_meta(p, token, pon)
  \/ \E p \in Procs, u \in Names, pon \in PonIds \cup {"nopon"} :
        PullStart(p, u, pon)
  \/ \E p \in Procs : PullCreate(p)
  \/ \E p \in Procs : PullInfo(p)
  \/ \E p \in Procs : PullAlter(p)
  \/ \E p \in Procs, card \in UNION {Draws(pon) : pon \in PonIds} :
        PullInsert(p, card)
  \/ \E p \in Procs : PullUpdate(p)
  \/ \E p \in Procs : PullCommit(p)
  \/ \E p \in Procs : PullAbort(p)
  \/ AddPonFolder
  \/ Restart

Spec == Init /\ [][Next]_vars

(* A single register request on a fresh store, over every short string and
   the strings around the length limits *)
ValNext ==
  \/ \E p \in Procs, u \in AllNames, pw \in AllPasswords :
        reqs = 0 /\ RegisterStart(p, u, pw)
  \/ \E p \in Procs : RegisterCreate(p)

ValSpec == Init /\ [][ValNext]_vars

----------------------------------------------------------------------------
(* Properties of the pull engine *)

Coins(u) == UserRow(u).coins

PullLabels == {"create", "info", "alter", "insert", "update", "commit"}

(* C1: in every reachable state every user's coin balance is >= 0 *)
C1_BalanceNonNegative == \A i \in DOMAIN users : users[i].coins >= 0

(* C2: of two pulls by one user whose balance affords either one but not
   both, exactly one succeeds; here both have returned a card, so the
   balance before them was the balance now plus both costs *)
C2_OnlyOneAffordablePullSucceeds ==
  \A p, q \in Procs :
     ( /\ p # q
       /\ req[p].kind = "pull" /\ req[q].kind = "pull"
       /\ req[p].user = req[q].user
       /\ result[p].st = "card" /\ result[q].st = "card" )
     => LET before == Coins(req[p].user) + Cost(req[p].pon) + Cost(req[q].pon)
        IN  ~( /\ before >= Cost(req[p].pon)
               /\ before >= Cost(req[q].pon)
               /\ before < Cost(req[p].pon) + Cost(req[q].pon) )

RECURSIVE LedgerCost(_)
LedgerCost(rows) ==
  IF rows = <<>> THEN 0 ELSE Cost(Head(rows)[1]) + LedgerCost(Tail(rows))

Ledger(u) ==
  IF TableExists(TableName(u)) THEN tables[TableName(u)].rows ELSE <<>>

(* C3: in every committed state each user's balance equals the initial
   balance minus the summed cost of the entries of that user's ledger *)
C3_BalanceMatchesLedger ==
  \A u \in Usernames : Coins(u) = DefaultCoins - LedgerCost(Ledger(u))

(* a pull that passed its three checks ends, and not by a storage failure *)
PullEnds(p) ==
  /\ pc[p] \in PullLabels
  /\ pc'[p] = "done"
  /\ result'[p].st # "storage_failure"

(* C4: a pull by an existing user of a known pon with balance >= cost
   succeeds, debits exactly the pon's cost and adds exactly one entry, the
   returned reference, to the user's inventory for the pon *)
C4_AffordablePullSucceeds ==
  [][\A p \in Procs :
       PullEnds(p) =>
         /\ result'[p].st = "card"
         /\ Coins(req[p].user)' = Coins(req[p].user) - Cost(req[p].pon)
         /\ Inventory(req[p].user, req[p].pon)' =
              Append(Inventory(req[p].user, req[p].pon),
                     <<req[p].pon, result'[p].card>>)]_vars

(* C5: a pull that fails on the pon id, the user record or the balance
   changes no balance and no inventory, and creates no table *)
C5_FailedPullWritesNothing ==
  [][\A p \in Procs, u \in Names, pon \in PonIds \cup {"nopon"} :
       (PullStart(p, u, pon) /\ result'[p].st = "None")
          => /\ users' = users
             /\ tables' = tables]_vars

(* a pull has just been refused for its balance *)
C5_Witness ==
  \E p \in Procs :
     /\ req[p].kind = "pull" /\ result[p].st = "None"
     /\ req[p].pon \in PONDATA
     /\ user_exists(req[p].user)
     /\ Coins(req[p].user) < Cost(req[p].pon)

----------------------------------------------------------------------------
(* Properties of the auth service *)

LoggedIn(u) == \E i \in DOMAIN issued : issued[i].user = u

(* the token returned by u's most recent successful login *)
LatestToken(u) ==
  LET last == CHOOSE i \in DOMAIN issued :
                 /\ issued[i].user = u
                 /\ \A j \in DOMAIN issued : issued[j].user = u => j <= i
  IN issued[last].tok

(* C6: once a user has logged in again, the token of the earlier login is
   identified no more; at most one issued token per user is valid *)
C6_EarlierTokenInvalid ==
  /\ \A i, j \in DOMAIN issued :
        (i < j /\ issued[i].user = issued[j].user)
           => identify_user(issued[i].tok) = NoName
  /\ \A u \in Usernames :
        Cardinality({t \in IssuedTokens : identify_user(t) = u}) <= 1

(* a user has logged in twice and the second token is the valid one *)
C6_Witness ==
  \E i, j \in DOMAIN issued :
     /\ i < j
     /\ issued[i].user = issued[j].user
     /\ identify_user(issued[j].tok) = issued[j].user

Identified(token) ==
  IF \E u \in Usernames : LoggedIn(u) /\ LatestToken(u) = token
  THEN CHOOSE u \in Usernames : LoggedIn(u) /\ LatestToken(u) = token
  ELSE NoName

(* C7: identify (whoami) maps a token to the user whose most recent
   successful login returned it, and to not-found otherwise *)
C7_IdentifyLatestLogin ==
  /\ [](\A token \in Presentable : identify_user(token) = Identified(token))
  /\ [][\A p \in Procs, token \in Presentable :
          Whoami(p, token) =>
             IF Identified(token) = NoName
             THEN result'[p].st = "not_found"
             ELSE /\ result'[p].st = "username"
                  /\ result'[p].name = Identified(token)]_vars

(* with two users registered, whoami has named the second by its token *)
C7_Witness ==
  \E p \in Procs :
     /\ req[p].kind = "whoami"
     /\ result[p].st = "username"
     /\ result[p].name = Identified(req[p].tok)
     /\ Len(users) >= 2
     /\ result[p].name # users[1].username

Registered(u, pw) ==
  \E i \in DOMAIN registered : registered[i] = [user |-> u, pw |-> pw]

(* C8: a login succeeds and returns a token exactly when the username is
   registered and the password is the registered one; every other login
   fails with invalid credentials *)
C8_LoginIffPassword ==
  [][/\ \A p \in Procs, u \in Names, pw \in Passwords :
          LoginStart(p, u, pw) =>
             IF Registered(u, pw.id)
             THEN pc'[p] = "generate"
             ELSE pc'[p] = "done" /\ result'[p].st = "invalid_credentials"
     /\ \A p \in Procs :
          LoginGenerate(p) =>
             /\ result'[p].st = "token"
             /\ Registered(req[p].user, req[p].pw)]_vars

(* one login of a registered user returned a token, another with a wrong
   password was refused *)
C8_Witness ==
  \E p, q \in Procs :
     /\ req[p].kind = "login" /\ result[p].st = "token"
     /\ req[q].kind = "login" /\ result[q].st = "invalid_credentials"
     /\ req[q].user = req[p].user
     /\ req[q].pw # req[p].pw

(* C9 as stated: registering a registered username fails with the
   username-taken error and leaves the user records as they were *)
C9_RegisteredNameIsTaken ==
  [][\A p \in Procs, u \in Names, pw \in Passwords :
       (RegisterStart(p, u, pw) /\ u \in Usernames)
          => /\ pc'[p] = "done"
             /\ result'[p].st = "taken"
             /\ users' = users]_vars

(* C9, amended: with registrations enabled and a password of valid
   length, registering a registered username fails with the
   username-taken error and leaves the user records as they were *)
C9_RegisteredNameIsTakenWhenValid ==
  [][\A p \in Procs, u \in Names, pw \in Passwords :
       ( /\ RegisterStart(p, u, pw)
         /\ u \in Usernames
         /\ registrations
         /\ ~(pw.len < 8 \/ pw.len > 32) )
          => /\ pc'[p] = "done"
             /\ result'[p].st = "taken"
             /\ users' = users]_vars

(* a second registration of a registered username has been refused *)
C9_Witness ==
  \E p \in Procs :
     /\ req[p].kind = "register"
     /\ result[p].st = "taken"
     /\ req[p].user \in Usernames

(* the usernames the specification accepts *)
ValidUsername(u) ==
  /\ Len(u) >= 3
  /\ Len(u) <= 16
  /\ \A i \in DOMAIN u : u[i] \in WordChars

(* C10: register accepts a username exactly when its length is 3..16 and
   all its characters are in [A-Za-z0-9_], and answers invalid-username
   otherwise *)
C10_UsernameAcceptedIffValid ==
  \A p \in Procs :
     (registrations /\ req[p].kind = "register")
        => (result[p].st = "invalid_username" <=> ~ValidUsername(req[p].user))

----------------------------------------------------------------------------
(* Properties of the draw and of the ledger *)

(* ref names a card of pon: card/variety for a card with varieties, the
   card alone for a card without *)
ValidRef(pon, ref) ==
  \E i \in DOMAIN Meta(pon).cards :
     LET card == Meta(pon).cards[i] IN
     IF card.hasVarieties
     THEN \E j \in DOMAIN card.varieties :
             ref = card.id \o "/" \o card.varieties[j].id
     ELSE ref = card.id

(* C11: the reference a successful pull returns and records names a card
   of the pulled pon, with one of that card's varieties exactly when the
   card has varieties *)
C11_DrawnReferenceValid ==
  /\ \A p \in Procs :
        result[p].st = "card" => ValidRef(req[p].pon, result[p].card)
  /\ \A t \in DOMAIN tables :
        \A k \in DOMAIN tables[t].rows :
           ValidRef(tables[t].rows[k][1], tables[t].rows[k][2])

(* a pull has returned and recorded a card/variety reference *)
C11_Witness ==
  \E p \in Procs :
     /\ result[p].st = "card"
     /\ result[p].card = "c2/v1"
     /\ \E k \in DOMAIN Ledger(req[p].user) :
           Ledger(req[p].user)[k] = <<req[p].pon, "c2/v1">>

IsPrefix(s, t) == Len(s) <= Len(t) /\ SubSeq(t, 1, Len(s)) = s

(* C12: no step removes, changes or reorders a row of an inventory table
   or drops a table or a column; a step adds at most one row, and the
   step that adds a pon's column adds no row *)
C12_LedgerAppendOnly ==
  [][\A t \in DOMAIN tables :
       /\ t \in DOMAIN tables'
       /\ IsPrefix(tables[t].rows, tables'[t].rows)
       /\ Len(tables'[t].rows) <= Len(tables[t].rows) + 1
       /\ tables[t].cols \subseteq tables'[t].cols
       /\ tables'[t].cols # tables[t].cols
             => tables'[t].rows = tables[t].rows
       /\ \A p \in Procs :
             PullCommit(p) /\ TableName(req[p].user) = t
                => Len(tables'[t].rows) = Len(tables[t].rows) + 1]_vars

(* a table holds two pulls, of two pons, the second pon's column added
   after the first row *)
C12_Witness ==
  \E t \in DOMAIN tables :
     /\ Len(tables[t].rows) = 2
     /\ tables[t].rows[1][1] # tables[t].rows[2][1]

----------------------------------------------------------------------------
(* Properties of rejected requests *)

(* the step in which worker p's register request is answered *)
RegisterEnds(p) ==
  /\ req'[p].kind = "register"
  /\ pc'[p] = "done"
  /\ reqs' = reqs + 1 \/ pc[p] = "create_user"

Rejections == {"forbidden", "invalid_username", "invalid_password", "taken"}

(* C13: a register request that is rejected (registrations disabled,
   invalid username, invalid password, username taken) writes nothing:
   no user record and no table is created or changed *)
C13_RejectedRegisterWritesNothing ==
  [][\A p \in Procs :
       RegisterEnds(p) /\ result'[p].st \in Rejections
          => UNCHANGED <<users, tables, nextTok>>]_vars

(* while a user exists, a register of an unregistered name has been
   rejected for its password and another register rejected otherwise *)
C13_Witness ==
  /\ users # <<>>
  /\ \E p \in Procs :
        /\ req[p].kind = "register"
        /\ pc[p] = "done"
        /\ result[p].st = "invalid_password"
        /\ req[p].user \notin Usernames
  /\ \E q \in Procs :
        /\ req[q].kind = "register"
        /\ pc[q] = "done"
        /\ result[q].st \in {"taken", "invalid_username", "forbidden"}

----------------------------------------------------------------------------
(* Properties of the catalog *)

(* C14: the catalog is loaded once at startup and read-only thereafter:
   between two startups no step changes the catalog the browse requests
   read or, once it is loaded, the catalog pull reads, and the catalog a
   pull consults is the one loaded at startup *)
C14_CatalogReadOnlyAfterLoad ==
  [][~Restart =>
       /\ mainPONDATA' = mainPONDATA
       /\ PONDATA # {} => PONDATA' = PONDATA
       /\ \A p \in Procs, u \in Names, pon \in PonIds \cup {"nopon"} :
             PullStart(p, u, pon) => PONDATA' = mainPONDATA]_vars

----------------------------------------------------------------------------
(* Properties of what pull reports *)

(* C15: a pull that fails at its checks reports which one failed:
   PonNotFound if the pon is not in the catalog, otherwise UserNotFound
   if there is no user record, otherwise InsufficientCoins *)
C15_PullFailureNamesTheCheck ==
  [][\A p \in Procs, u \in Names, pon \in PonIds \cup {"nopon"} :
       PullStart(p, u, pon) /\ pc'[p] = "done"
          => result'[p].st =
               IF pon \notin init THEN "PonNotFound"
               ELSE IF u \notin Usernames THEN "UserNotFound"
               ELSE "InsufficientCoins"]_vars

----------------------------------------------------------------------------
(* Properties of the balance *)

(* C16: a user's balance is 3 when register creates the record, and the
   only step that changes it afterwards is the commit of that user's own
   pull, which returns a card and debits the pon's cost; every other
   step (register, login, whoami, browse, a failed pull) leaves every
   balance as it was *)
C16_BalanceChangedOnlyByOwnPull ==
  [][/\ \A i \in DOMAIN users :
          /\ i \in DOMAIN users'
          /\ users'[i].username = users[i].username
          /\ users'[i].coins # users[i].coins
                => \E p \in Procs :
                      /\ PullCommit(p)
                      /\ req[p].user = users[i].username
                      /\ result'[p].st = "card"
                      /\ users'[i].coins = users[i].coins - Cost(req[p].pon)
     /\ \A i \in DOMAIN users' \ DOMAIN users :
          /\ users'[i].coins = 3
          /\ \E p \in Procs :
                RegisterCreate(p) /\ req[p].user = users'[i].username]_vars

(* a user has pulled gold and logged in, another worker has browsed the
   catalog, and the balance is what the pull left *)
C16_Witness ==
  \E i \in DOMAIN users :
     /\ users[i].coins = 3 - Cost("gold")
     /\ \E k \in DOMAIN issued : issued[k].user = users[i].username
     /\ \E p \in Procs : req[p].kind = "details" /\ result[p].st = "meta"

----------------------------------------------------------------------------
(* Properties of isolation between users *)

(* a step of worker p's pull on its second connection *)
PullStep(p) ==
  \/ PullCreate(p) \/ PullInfo(p) \/ PullAlter(p)
  \/ \E card \in UNION {Draws(pon) : pon \in PonIds} : PullInsert(p, card)
  \/ PullUpdate(p) \/ PullCommit(p) \/ PullAbort(p)

(* C17: a pull by u leaves every other registered user's balance and
   inventory unchanged, and leaves the credential table and every field
   but u's balance of every credential record unchanged, also for
   usernames that differ only in letter case and for the username
   "users" *)
C17_InventoriesIsolated ==
  [][\A p \in Procs :
       PullStep(p) =>
          /\ \A v \in Usernames \ {req[p].user} :
                Coins(v)' = Coins(v) /\ Ledger(v)' = Ledger(v)
          /\ tables'[UsersTable] = tables[UsersTable]
          /\ \A i \in DOMAIN users :
                [users'[i] EXCEPT !.coins = 0] = [users[i] EXCEPT !.coins = 0]]_vars

----------------------------------------------------------------------------
(* Properties of concurrent requests *)

(* C18: of two concurrent pulls by one user whose balance affords both,
   the one that ends while the other is still under way ends with a card
   (storage failures and the username "users" aside), also when both are
   the user's first pull of the pon *)
C18_ConcurrentPullsBothSucceed ==
  [][\A p, q \in Procs :
       ( /\ p # q
         /\ PullEnds(p)
         /\ req[q].kind = "pull" /\ pc[q] \in PullLabels
         /\ req[q].user = req[p].user
         /\ TableName(req[p].user) # UsersTable
         /\ loc[p].coins >= Cost(req[p].pon) + Cost(req[q].pon) )
       => result'[p].st = "card"]_vars

(* C19: of the register requests for one valid username that have all
   passed the uniqueness check, the first to reach the INSERT succeeds
   and creates the one record; every later one leaves that record alone
   and reports username-taken *)
C19_ConcurrentRegisterOneWinner ==
  [][\A p \in Procs :
       RegisterCreate(p) =>
          IF req[p].user \in Usernames
          THEN result'[p].st = "taken" /\ users' = users
          ELSE /\ result'[p].st = "ok"
               /\ Len(SelectSeq(users',
                        LAMBDA r : r.username = req[p].user)) = 1]_vars

----------------------------------------------------------------------------
(* Properties of a failed login *)

(* the step in which worker p's login is refused *)
LoginFails(p) ==
  /\ req'[p].kind = "login"
  /\ reqs' = reqs + 1
  /\ pc'[p] = "done"
  /\ result'[p].st = "invalid_credentials"

(* C20: a login refused for an unknown username or a wrong password
   leaves every user's stored token unchanged, so every token is
   identified after it exactly as before it *)
C20_FailedLoginKeepsTokens ==
  [][\A p \in Procs :
       LoginFails(p) =>
          /\ DOMAIN users' = DOMAIN users
          /\ \A i \in DOMAIN users : users'[i].token = users[i].token
          /\ \A token \in Presentable :
                identify_user(token)' = identify_user(token)]_vars

(* a login with a wrong password was refused for a user who holds a
   token, and whoami identifies that token as the user's *)
C20_Witness ==
  \E p, q \in Procs :
     /\ req[p].kind = "login" /\ result[p].st = "invalid_credentials"
     /\ req[p].user \in Usernames
     /\ LoggedIn(req[p].user)
     /\ req[q].kind = "whoami"
     /\ req[q].tok = LatestToken(req[p].user)
     /\ result[q].name = req[p].user
     /\ identify_user(LatestToken(req[p].user)) = req[p].user

====
